---- MODULE Spec2Model ----
(***************************************************************************)
(* A model of PSIAnalyzer (src/psi.py): the constructor, group_creator,    *)
(* _psi_calculator and _visualize of one analyzer object, with the numpy   *)
(* calls they make (sort, percentile, digitize, sum, log) modelled by what *)
(* they compute.                                                           *)
(*                                                                         *)
(* Numbers.  Samples are integers.  A proportion or a cut point is an      *)
(* exact rational [n, d] (d > 0), or NaN, written [n |-> 0, d |-> 0].      *)
(* The percentile ranks (100 / group) * counter are computed in IEEE       *)
(* double precision (53-bit significands held as bit sequences), because   *)
(* numpy rejects a rank outside [0, 100] and rounding decides that; the    *)
(* interpolation between order statistics is kept exact.  A value of       *)
(* np.log, of a product with it, and of a sum of such products is kept as  *)
(* its exact arguments together with its class: NaN, -inf, negative, zero, *)
(* positive, +inf.                                                         *)
(***************************************************************************)
EXTENDS Integers, Sequences, FiniteSets

\* ------------------------------------------------------------------ bounds
\* Longest generated dataset.
MaxLen == 2
\* Generated samples are drawn from 1..MaxVal.
MaxVal == 2
\* Generated group counts are drawn from 1..MaxGroup (and see Groups).
MaxGroup == 3
\* Method calls made on one analyzer object.
MaxCalls == 2

\* ------------------------------------------------------- sequence helpers
\* n copies of x.
Repeat(x, n) == [j \in 1..n |-> x]

\* <<lo, lo+1, ..., hi>>
Range(lo, hi) == [j \in 1..(hi - lo + 1) |-> lo + j - 1]

RECURSIVE SeqsUpTo(_, _)
\* Every sequence over S of length at most n.
SeqsUpTo(S, n) ==
    IF n = 0 THEN {<<>>}
    ELSE LET shorter == SeqsUpTo(S, n - 1)
         IN  shorter \cup {Append(s, x) : s \in shorter, x \in S}

\* ------------------------------------------------ double precision floats
\* A positive double is [m, e]: m its 53-bit significand, most significant
\* bit first and equal to 1, and e the exponent of its last bit, so that the
\* value is m * 2^e.  Zero is [m |-> <<>>, e |-> 0].  Arithmetic is done on
\* limbs (base-256 digits, most significant first) and rounded on bits.
Precision == 53

FZero == [m |-> <<>>, e |-> 0]

\* The bits of a limb string.
BitsOfLimbs(limbs) ==
    [j \in 1..(8 * Len(limbs)) |->
        (limbs[((j - 1) \div 8) + 1] \div 2^(7 - ((j - 1) % 8))) % 2]

\* The limbs of a bit string, padded on the right to whole limbs.
LimbsOfBits(bits) ==
    LET n    == (Len(bits) + 7) \div 8
        b(j) == IF j <= Len(bits) THEN bits[j] ELSE 0
    IN  [t \in 1..n |->
            128 * b(8*t - 7) + 64 * b(8*t - 6) + 32 * b(8*t - 5) + 16 * b(8*t - 4)
            + 8 * b(8*t - 3) + 4 * b(8*t - 2) + 2 * b(8*t - 1) + b(8*t)]

\* Bits added on the right by LimbsOfBits.
PadBits(bits) == 8 * ((Len(bits) + 7) \div 8) - Len(bits)

\* Round to nearest, ties to even: the double nearest to bits * 2^e, where
\* sticky tells that a nonzero amount below the last bit was cut off.
RoundBits(bits, e, sticky) ==
    LET ones == {j \in 1..Len(bits) : bits[j] = 1}
    IN  IF ones = {} THEN FZero
        ELSE
        LET lead == CHOOSE j \in ones : \A i \in ones : j <= i
            b    == SubSeq(bits, lead, Len(bits))
            L    == Len(b)
        IN  IF L <= Precision
            THEN [m |-> b \o [j \in 1..(Precision - L) |-> 0],
                  e |-> e - (Precision - L)]
            ELSE
            LET keep  == SubSeq(b, 1, Precision)
                more  == sticky \/ \E j \in (Precision + 2)..L : b[j] = 1
                up    == b[Precision + 1] = 1 /\ (more \/ keep[Precision] = 1)
                zeros == {j \in 1..Precision : keep[j] = 0}
                e1    == e + (L - Precision)
            IN  IF ~up THEN [m |-> keep, e |-> e1]
                ELSE IF zeros = {}
                THEN [m |-> [j \in 1..Precision |-> IF j = 1 THEN 1 ELSE 0],
                      e |-> e1 + 1]
                ELSE LET z == CHOOSE j \in zeros : \A i \in zeros : j >= i
                     IN  [m |-> [j \in 1..Precision |->
                                    IF j < z THEN keep[j]
                                    ELSE IF j = z THEN 1 ELSE 0],
                          e |-> e1]

\* The limbs of a natural number below 2^31.
NatLimbs(n) ==
    <<(n \div 2^24) % 256, (n \div 2^16) % 256, (n \div 2^8) % 256, n % 256>>

\* Schoolbook division of nine limbs (a significand's seven and two guard
\* limbs) by q, 0 < q <= 256: [q |-> the quotient's limbs, r |-> the
\* remainder].
LongDiv(l, q) ==
    LET v1 == l[1]
        v2 == 256 * (v1 % q) + l[2]
        v3 == 256 * (v2 % q) + l[3]
        v4 == 256 * (v3 % q) + l[4]
        v5 == 256 * (v4 % q) + l[5]
        v6 == 256 * (v5 % q) + l[6]
        v7 == 256 * (v6 % q) + l[7]
        v8 == 256 * (v7 % q) + l[8]
        v9 == 256 * (v8 % q) + l[9]
    IN  [q |-> <<v1 \div q, v2 \div q, v3 \div q, v4 \div q, v5 \div q,
                 v6 \div q, v7 \div q, v8 \div q, v9 \div q>>,
         r |-> v9 % q]

\* The seven limbs of a significand times i, 0 <= i < 256, exactly.
MulLimbs(l, i) ==
    LET v7 == l[7] * i
        v6 == l[6] * i + (v7 \div 256)
        v5 == l[5] * i + (v6 \div 256)
        v4 == l[4] * i + (v5 \div 256)
        v3 == l[3] * i + (v4 \div 256)
        v2 == l[2] * i + (v3 \div 256)
        v1 == l[1] * i + (v2 \div 256)
    IN  <<v1 \div 256, v1 % 256, v2 % 256, v3 % 256, v4 % 256, v5 % 256,
          v6 % 256, v7 % 256>>

\* The double x / q for a double x and an integer q, 0 < q <= 256.
FDivInt(x, q) ==
    IF x.m = <<>> THEN FZero
    ELSE LET d == LongDiv(LimbsOfBits(x.m) \o <<0, 0>>, q)
         IN  RoundBits(BitsOfLimbs(d.q), x.e - PadBits(x.m) - 16, d.r # 0)

\* The double x * i for a double x and an integer i, 0 <= i < 256.
FMulInt(x, i) ==
    IF x.m = <<>> \/ i = 0 THEN FZero
    ELSE RoundBits(BitsOfLimbs(MulLimbs(LimbsOfBits(x.m), i)),
                   x.e - PadBits(x.m), FALSE)

\* The double of an integer p, 0 <= p < 2^31 (exact).
FOfInt(p) == RoundBits(BitsOfLimbs(NatLimbs(p)), 0, FALSE)

\* x <= 1.0
FLeOne(x) ==
    \/ x.m = <<>>
    \/ x.e < -(Precision - 1)
    \/ x.e = -(Precision - 1)
       /\ x.m = [j \in 1..Precision |-> IF j = 1 THEN 1 ELSE 0]

\* ------------------------------------------------------------- rationals
\* An exact rational n / d with d > 0; NaN is 0 / 0.  Comparisons with NaN
\* are false, as in IEEE arithmetic.
Rat(n, d) == [n |-> n, d |-> d]
NaN == Rat(0, 0)
IsNaN(x) == x.d = 0
Lt(x, y) == ~IsNaN(x) /\ ~IsNaN(y) /\ x.n * y.d < y.n * x.d
Le(x, y) == ~IsNaN(x) /\ ~IsNaN(y) /\ x.n * y.d <= y.n * x.d
Eq(x, y) == ~IsNaN(x) /\ ~IsNaN(y) /\ x.n * y.d = y.n * x.d

\* count / length as numpy divides an integer count by a Python int: 0 / 0
\* is NaN (a RuntimeWarning, no exception).
Divide(count, length) == Rat(count, length)

\* x - y and x / y for rationals (y > 0 or NaN in the division).
Minus(x, y) ==
    IF IsNaN(x) \/ IsNaN(y) THEN NaN ELSE Rat(x.n * y.d - y.n * x.d, x.d * y.d)
Over(x, y) ==
    IF IsNaN(x) \/ IsNaN(y) THEN NaN ELSE Rat(x.n * y.d, x.d * y.n)

\* The class of a rational: "nan", "neg", "zero" or "pos".
Sign(x) ==
    IF IsNaN(x) THEN "nan"
    ELSE IF x.n < 0 THEN "neg" ELSE IF x.n = 0 THEN "zero" ELSE "pos"

\* The class of np.log(x) for x >= 0 or NaN: log(0) is -inf.
LogClass(x) ==
    IF IsNaN(x) THEN "nan"
    ELSE IF x.n = 0 THEN "neginf"
    ELSE IF x.n < x.d THEN "neg"
    ELSE IF x.n = x.d THEN "zero" ELSE "pos"

\* The class of a product of a finite factor of class f with a value of
\* class l: 0 * inf is NaN.
MulClass(f, l) ==
    IF f = "nan" \/ l = "nan" THEN "nan"
    ELSE IF l \in {"neginf", "posinf"}
    THEN IF f = "zero" THEN "nan"
         ELSE IF (f = "pos") = (l = "posinf") THEN "posinf" ELSE "neginf"
    ELSE IF f = "zero" \/ l = "zero" THEN "zero"
    ELSE IF f = l THEN "pos" ELSE "neg"

\* The class of np.sum over values of the given classes; "finite" when
\* finite terms of both signs leave the sign to their magnitudes.
SumClass(terms) ==
    LET has(c) == \E j \in 1..Len(terms) : terms[j].cls = c
    IN  IF has("nan") \/ (has("posinf") /\ has("neginf")) THEN "nan"
        ELSE IF has("posinf") THEN "posinf"
        ELSE IF has("neginf") THEN "neginf"
        ELSE IF has("finite") \/ (has("pos") /\ has("neg")) THEN "finite"
        ELSE IF has("pos") THEN "pos"
        ELSE IF has("neg") THEN "neg" ELSE "zero"

\* ----------------------------------------------------------------- numpy
\* np.sort
Sort(a) ==
    [i \in 1..Len(a) |->
        CHOOSE v \in {a[j] : j \in 1..Len(a)} :
            /\ Cardinality({j \in 1..Len(a) : a[j] < v}) < i
            /\ i <= Cardinality({j \in 1..Len(a) : a[j] <= v})]

\* The rank (100 / g) * counter for group count g, as np.percentile sees it after its own
\* division by 100, in double precision.
PercentileRank(g, counter) ==
    FDivInt(FMulInt(FDivInt(FOfInt(100), g), counter), 100)

\* np.percentile's check of its ranks: every rank within [0, 100].
QuantileIsValid(g) ==
    \A counter \in 0..g : FLeOne(PercentileRank(g, counter))

\* np.percentile of a non-empty sorted array at rank counter / g, by
\* linear interpolation between the two nearest order statistics.
LinearPercentile(sorted, g, counter) ==
    LET n   == Len(sorted)
        pos == counter * (n - 1)
        lo  == pos \div g
        rem == pos % g
        hi  == IF lo + 1 > n - 1 THEN n - 1 ELSE lo + 1
    IN  Rat(g * sorted[lo + 1] + rem * (sorted[hi + 1] - sorted[lo + 1]), g)

\* np.digitize(x, bins, right=True) for non-decreasing bins: the number of
\* bins strictly below the sample.  Bins that are all NaN count as
\* decreasing, and every sample gets len(bins).
Digitize(x, bins) ==
    [j \in 1..Len(x) |->
        IF \A c \in 1..Len(bins) : IsNaN(bins[c]) THEN Len(bins)
        ELSE Cardinality({c \in 1..Len(bins) : Lt(bins[c], Rat(x[j], 1))})]

\* ------------------------------------------------------------ the object
VARIABLES
    status,                \* "none": not constructed; "live"; "rejected": __init__ raised
    actual,                \* self.actual
    expected,              \* self.expected
    group,                 \* self.group
    cut_points,            \* self.cut_points: None, or group + 1 cut points
    actual_groups,         \* self.actual_groups
    expected_groups,       \* self.expected_groups
    actual_percentages,    \* self.actual_percentages
    expected_percentages,  \* self.expected_percentages
    group_psi_values,      \* self.group_psi_values
    psi,                   \* self.psi
    group_df,              \* self.group_df: unset, or the rows of the frame
    exc,                   \* the exception the last call raised, "" when it returned
    last,                  \* the method called last
    calls,                 \* method calls made on the object so far
    creator_runs,          \* executions of group_creator so far, direct or nested
    returns                \* what each call of _psi_calculator returned, in order

vars == <<status, actual, expected, group, cut_points, actual_groups,
          expected_groups, actual_percentages, expected_percentages,
          group_psi_values, psi, group_df, exc, last, calls, creator_runs,
          returns>>

\* None, for cut_points (never an empty array) and for the unset group_df.
None == <<>>
\* None, for psi.
NoPsi == [terms |-> <<>>, cls |-> "None"]

\* The floor 0.000001 put in place of a zero expected proportion.
FloorValue == Rat(1, 1000000)

\* ------------------------------------------------------------ the inputs
\* Group counts: 1 (rejected), the small ones, and 11, the smallest count
\* whose last rank (100 / 11) * 11 rounds above 100.
Groups == (1..MaxGroup) \cup {11}

Datasets == SeqsUpTo(1..MaxVal, MaxLen)

\* The two scenarios the documentation works through.
Scenarios ==
    { <<Range(1, 10), Range(1, 10), 2>>,
      <<Repeat(1, 50) \o Repeat(2, 50), Repeat(1, 100), 2>> }

Inputs == (Datasets \X Datasets \X Groups) \cup Scenarios

\* The group counts whose ranks np.percentile accepts, computed once.
ValidGroups == {g \in Groups : QuantileIsValid(g)}

\* -------------------------------------------------------------- __init__
Init ==
    /\ status = "none"
    /\ actual = <<>>
    /\ expected = <<>>
    /\ group = 0
    /\ cut_points = None
    /\ actual_groups = <<>>
    /\ expected_groups = <<>>
    /\ actual_percentages = <<>>
    /\ expected_percentages = <<>>
    /\ group_psi_values = <<>>
    /\ psi = NoPsi
    /\ group_df = None
    /\ exc = ""
    /\ last = ""
    /\ calls = 0
    /\ creator_runs = 0
    /\ returns = <<>>

\* The checks of the constructor that a list of numbers and an integer group
\* can fail: group < 2.  (Both datasets are lists here, group is an int; the
\* warning for group > 25 changes no state.)
InitRaises(a, e, g) == g < 2

Construct ==
    /\ status = "none"
    /\ \E inp \in Inputs :
        IF InitRaises(inp[1], inp[2], inp[3])
        THEN /\ status' = "rejected"
             /\ exc' = "ValueError"
             /\ UNCHANGED <<actual, expected, group>>
        ELSE /\ status' = "live"
             /\ exc' = ""
             /\ actual' = inp[1]
             /\ expected' = inp[2]
             /\ group' = inp[3]
    /\ last' = "__init__"
    /\ UNCHANGED <<cut_points, actual_groups, expected_groups,
                   actual_percentages, expected_percentages, group_psi_values,
                   psi, group_df, calls, creator_runs, returns>>

\* --------------------------------------------------------- group_creator
\* What np.percentile(sorted_actual, ranks) can do: raise ValueError on a
\* rank outside [0, 100]; on an empty array raise IndexError (numpy 1.22 and
\* later) or return NaNs (earlier); else return the group + 1 percentiles.
PercentileOutcomes(a, g) ==
    IF g \notin ValidGroups THEN {[exc |-> "ValueError", value |-> None]}
    ELSE IF Len(a) = 0
    THEN {[exc |-> "IndexError", value |-> None],
          [exc |-> "", value |-> Repeat(NaN, g + 1)]}
    ELSE {[exc |-> "",
           value |-> [i \in 1..(g + 1) |-> LinearPercentile(Sort(a), g, i - 1)]]}

\* The group of each sample: np.digitize(..., right=True) + 1.
GroupsOf(x, bins) == [j \in 1..Len(x) |-> Digitize(x, bins)[j] + 1]

\* The outcomes of group_creator: the exception raised, or the three
\* attributes it assigns.
CreatorOutcomes(a, e, g) ==
    { [exc             |-> p.exc,
       cut_points      |-> p.value,
       actual_groups   |-> IF p.exc = "" THEN GroupsOf(a, p.value) ELSE <<>>,
       expected_groups |-> IF p.exc = "" THEN GroupsOf(e, p.value) ELSE <<>>]
      : p \in PercentileOutcomes(a, g) }

GroupCreator ==
    /\ status = "live"
    /\ calls < MaxCalls
    /\ \E c \in CreatorOutcomes(actual, expected, group) :
        /\ exc' = c.exc
        /\ IF c.exc = ""
           THEN /\ cut_points' = c.cut_points
                /\ actual_groups' = c.actual_groups
                /\ expected_groups' = c.expected_groups
           ELSE UNCHANGED <<cut_points, actual_groups, expected_groups>>
    /\ last' = "group_creator"
    /\ calls' = calls + 1
    /\ creator_runs' = creator_runs + 1
    /\ UNCHANGED <<status, actual, expected, group, actual_percentages,
                   expected_percentages, group_psi_values, psi, group_df,
                   returns>>

\* ------------------------------------------------------- _psi_calculator
\* A guard that is always taken: the groups are recomputed on every call.
NeedsGroupsAlways(cp) == TRUE

\* `if self.cut_points is None`
NeedsGroups(cp) == cp = None

\* `if self.cut_points is None: self.group_creator()`: the outcomes, with
\* ran = 1 when group_creator ran.
EnsureGroups ==
    IF NeedsGroups(cut_points)
    THEN { [exc |-> c.exc, cut_points |-> c.cut_points,
            actual_groups |-> c.actual_groups,
            expected_groups |-> c.expected_groups, ran |-> 1]
           : c \in CreatorOutcomes(actual, expected, group) }
    ELSE { [exc |-> "", cut_points |-> cut_points,
            actual_groups |-> actual_groups,
            expected_groups |-> expected_groups, ran |-> 0] }

\* np.sum((x >= cut_lower) & (x < cut_upper)) / len(x)
HalfOpenPerc(x, cut_lower, cut_upper) ==
    Divide(Cardinality({j \in 1..Len(x) :
                           /\ Le(cut_lower, Rat(x[j], 1))
                           /\ Lt(Rat(x[j], 1), cut_upper)}),
           Len(x))

\* np.sum((x >= cut_lower) & (x <= cut_upper)) / len(x)
ClosedPerc(x, cut_lower, cut_upper) ==
    Divide(Cardinality({j \in 1..Len(x) :
                           /\ Le(cut_lower, Rat(x[j], 1))
                           /\ Le(Rat(x[j], 1), cut_upper)}),
           Len(x))

\* actual_perc of the group with 0-based index cut_index.
ActualPerc(a, cp, cut_index) ==
    HalfOpenPerc(a, cp[cut_index + 1], cp[cut_index + 2])

\* expected_perc of the group with 0-based index cut_index, before the floor:
\* recomputed with the upper bound included for the last group.
ExpectedPerc(e, cp, cut_index, g) ==
    IF cut_index + 1 = g
    THEN ClosedPerc(e, cp[cut_index + 1], cp[cut_index + 2])
    ELSE HalfOpenPerc(e, cp[cut_index + 1], cp[cut_index + 2])

\* `if expected_perc == 0: expected_perc = 0.000001`
Floored(expected_perc) ==
    IF ~IsNaN(expected_perc) /\ expected_perc.n = 0 THEN FloorValue
    ELSE expected_perc

\* The ratio the other way round, expected over actual.
LogArgumentSwapped(actual_perc, expected_perc) == Over(expected_perc, actual_perc)

\* The argument of np.log.
LogArgument(actual_perc, expected_perc) == Over(actual_perc, expected_perc)

\* group_psi: the value factor * ln(larg), of class cls.
GroupPsi(actual_perc, expected_perc) ==
    LET factor == Minus(actual_perc, expected_perc)
        larg   == LogArgument(actual_perc, expected_perc)
    IN  [factor |-> factor, larg |-> larg,
         cls |-> MulClass(Sign(factor), LogClass(larg))]

\* np.sum(self.group_psi_values): the sum of the terms, of class cls.
SumOf(terms) == [terms |-> terms, cls |-> SumClass(terms)]

\* The loop over the groups and the sum after it: the three lists with this
\* call's values appended, and psi.
Calculate(cp, ap, ep, gpv) ==
    LET a(i)  == ActualPerc(actual, cp, i - 1)
        e(i)  == Floored(ExpectedPerc(expected, cp, i - 1, group))
        newA  == [i \in 1..group |-> a(i)]
        newE  == [i \in 1..group |-> e(i)]
        newG  == [i \in 1..group |-> GroupPsi(a(i), e(i))]
    IN  [actual_percentages   |-> ap \o newA,
         expected_percentages |-> ep \o newE,
         group_psi_values     |-> gpv \o newG,
         psi                  |-> SumOf(gpv \o newG)]

\* What a call of _psi_calculator returns.
Returned(r) == [psi |-> r.psi, group_psi_values |-> r.group_psi_values]

PsiCalculator ==
    /\ status = "live"
    /\ calls < MaxCalls
    /\ \E c \in EnsureGroups :
        /\ creator_runs' = creator_runs + c.ran
        /\ exc' = c.exc
        /\ IF c.exc # ""
           THEN UNCHANGED <<cut_points, actual_groups, expected_groups,
                            actual_percentages, expected_percentages,
                            group_psi_values, psi, returns>>
           ELSE LET r == Calculate(c.cut_points, actual_percentages,
                                   expected_percentages, group_psi_values)
                IN  /\ cut_points' = c.cut_points
                    /\ actual_groups' = c.actual_groups
                    /\ expected_groups' = c.expected_groups
                    /\ actual_percentages' = r.actual_percentages
                    /\ expected_percentages' = r.expected_percentages
                    /\ group_psi_values' = r.group_psi_values
                    /\ psi' = r.psi
                    /\ returns' = Append(returns, Returned(r))
    /\ last' = "_psi_calculator"
    /\ calls' = calls + 1
    /\ UNCHANGED <<status, actual, expected, group, group_df>>

\* ------------------------------------------------------------ _visualize
\* The frame pd.concat([actual_df, expected_df]) builds: one row per group
\* and dataset.
GroupFrame(ap, ep) ==
    [i \in 1..group |-> [groups |-> i, percentages |-> ap[i], hue |-> "actual"]]
    \o [i \in 1..group |-> [groups |-> i, percentages |-> ep[i], hue |-> "expected"]]

\* pd.DataFrame raises ValueError unless its columns have the same length.
FrameRaises(ap, ep) == Len(ap) # group \/ Len(ep) # group

Visualize ==
    /\ status = "live"
    /\ calls < MaxCalls
    /\ \E c \in EnsureGroups :
        /\ creator_runs' = creator_runs + c.ran
        /\ IF c.exc # ""
           THEN /\ exc' = c.exc
                /\ UNCHANGED <<cut_points, actual_groups, expected_groups,
                               actual_percentages, expected_percentages,
                               group_psi_values, psi, returns, group_df>>
           ELSE LET nested == group_psi_values = <<>>
                    r == IF nested
                         THEN Calculate(c.cut_points, actual_percentages,
                                        expected_percentages, group_psi_values)
                         ELSE [actual_percentages   |-> actual_percentages,
                               expected_percentages |-> expected_percentages,
                               group_psi_values     |-> group_psi_values,
                               psi                  |-> psi]
                IN  /\ cut_points' = c.cut_points
                    /\ actual_groups' = c.actual_groups
                    /\ expected_groups' = c.expected_groups
                    /\ actual_percentages' = r.actual_percentages
                    /\ expected_percentages' = r.expected_percentages
                    /\ group_psi_values' = r.group_psi_values
                    /\ psi' = r.psi
                    /\ returns' = IF nested THEN Append(returns, Returned(r))
                                  ELSE returns
                    /\ IF FrameRaises(r.actual_percentages, r.expected_percentages)
                       THEN /\ exc' = "ValueError"
                            /\ UNCHANGED group_df
                       ELSE /\ exc' = ""
                            /\ group_df' = GroupFrame(r.actual_percentages,
                                                      r.expected_percentages)
    /\ last' = "_visualize"
    /\ calls' = calls + 1
    /\ UNCHANGED <<status, actual, expected, group>>

\* ------------------------------------------------------ the specification
Next ==
    \/ Construct
    \/ GroupCreator
    \/ PsiCalculator
    \/ Visualize

Spec == Init /\ [][Next]_vars

\* ------------------------------------------------------------ the claims
\* A constructed analyzer whose two datasets are non-empty.
Valid == status = "live" /\ Len(actual) > 0 /\ Len(expected) > 0

MinOf(a) == CHOOSE v \in {a[j] : j \in 1..Len(a)} : \A j \in 1..Len(a) : v <= a[j]
MaxOf(a) == CHOOSE v \in {a[j] : j \in 1..Len(a)} : \A j \in 1..Len(a) : v >= a[j]

RECURSIVE SumOfCounts(_, _)
\* The sum of the numerators of the first n proportions.
SumOfCounts(percs, n) ==
    IF n = 0 THEN 0 ELSE percs[n].n + SumOfCounts(percs, n - 1)

\* Two sums have the same value: the same terms, or the same class when the
\* class fixes the value.
SameValue(p, q) ==
    /\ p.cls = q.cls
    /\ p.cls \in {"zero", "posinf", "neginf"} \/ p.terms = q.terms

\* The binning rule: sample v lies in group i of the cut points cp.
InGroup(v, i, cp, g) ==
    /\ Le(cp[i], Rat(v, 1))
    /\ IF i = g THEN Le(Rat(v, 1), cp[i + 1]) ELSE Lt(Rat(v, 1), cp[i + 1])

\* C1: on a valid instance every call of _psi_calculator returns the psi
\* value and the sequence of exactly `group` contributions that the first
\* call returned.
C1_RepeatedCallsAgree ==
    Valid =>
        \A n \in 1..Len(returns) :
            /\ Len(returns[n].group_psi_values) = group
            /\ returns[n].group_psi_values = returns[1].group_psi_values
            /\ SameValue(returns[n].psi, returns[1].psi)

\* C2: after the first call of _psi_calculator on a valid instance the
\* per-group actual counts sum to len(actual), and the samples equal to
\* max(actual) are counted in the last group.
C2_EveryActualSampleCounted ==
    (Valid /\ returns # <<>>) =>
        /\ SumOfCounts(actual_percentages, group) = Len(actual)
        /\ actual_percentages[group].n >=
               Cardinality({j \in 1..Len(actual) : actual[j] = MaxOf(actual)})

\* C3: when expected holds the same samples as actual and the floor was not
\* used, the first call finds equal actual and expected proportions in every
\* group, every contribution 0 and psi 0; for actual = expected = 1..10 and
\* two groups the cut points are 1, 5.5 and 10.
C3_SelfComparisonIsZero ==
    ( /\ Valid
      /\ actual = expected
      /\ returns # <<>>
      /\ \A i \in 1..group : expected_percentages[i] # FloorValue ) =>
        /\ \A i \in 1..group :
               /\ Eq(actual_percentages[i], expected_percentages[i])
               /\ returns[1].group_psi_values[i].cls = "zero"
        /\ returns[1].psi.cls = "zero"
        /\ (actual = Range(1, 10) /\ group = 2) =>
               cut_points = <<Rat(2, 2), Rat(11, 2), Rat(20, 2)>>

\* C4: on a valid instance no logarithm of 0 is taken and no division by 0
\* made: no expected proportion in use is 0, and every contribution and psi
\* are finite.
C4_ContributionsFinite ==
    Valid =>
        /\ \A i \in 1..Len(group_psi_values) :
               /\ expected_percentages[i].n # 0
               /\ group_psi_values[i].larg.n # 0
               /\ group_psi_values[i].cls \in {"neg", "zero", "pos"}
        /\ psi.cls \in {"None", "neg", "zero", "pos", "finite"}

\* C5: on a valid instance every per-group contribution is non-negative (the
\* factor actual_perc - expected_perc and the logarithm never have opposite
\* signs), and so is psi.
C5_ContributionsNonNegative ==
    Valid =>
        /\ \A i \in 1..Len(group_psi_values) :
               LET f == Sign(group_psi_values[i].factor)
                   l == LogClass(group_psi_values[i].larg)
               IN  /\ group_psi_values[i].cls \in {"zero", "pos", "posinf"}
                   /\ ~(f = "pos" /\ l \in {"neg", "neginf"})
                   /\ ~(f = "neg" /\ l \in {"pos", "posinf"})
        /\ psi.cls \in {"None", "zero", "pos", "posinf"}

\* C5's case: psi was computed and is finite and positive, with a group
\* whose actual proportion is positive and below the expected one, so that
\* both factors are negative.
C5_Witness ==
    /\ Valid
    /\ psi.cls = "pos"
    /\ \E i \in 1..Len(group_psi_values) :
           /\ Sign(group_psi_values[i].factor) = "neg"
           /\ LogClass(group_psi_values[i].larg) = "neg"
           /\ group_psi_values[i].cls = "pos"

\* C6: after group_creator on an instance with a non-empty actual,
\* cut_points holds exactly group + 1 values, non-decreasing, the first
\* equal to min(actual) and the last equal to max(actual).
C6_CutPoints ==
    (status = "live" /\ Len(actual) > 0 /\ last = "group_creator") =>
        /\ Len(cut_points) = group + 1
        /\ \A i \in 1..group : Le(cut_points[i], cut_points[i + 1])
        /\ Eq(cut_points[1], Rat(MinOf(actual), 1))
        /\ Eq(cut_points[group + 1], Rat(MaxOf(actual), 1))

\* C7: an empty actual is rejected at construction, and no call of
\* _psi_calculator on an empty actual or an empty expected returns a psi.
C7_EmptyDatasetRejected ==
    /\ status = "live" => Len(actual) > 0
    /\ (Len(actual) = 0 \/ Len(expected) = 0) => returns = <<>>

\* C8: the logarithm's argument is expected_perc / actual_perc: where the
\* actual proportion is above the (floored) expected one the argument is
\* below 1.
C8_LogOrientation ==
    Valid =>
        \A i \in 1..Len(group_psi_values) :
            /\ actual_percentages[i].n > 0 =>
                   Eq(group_psi_values[i].larg,
                      Over(expected_percentages[i], actual_percentages[i]))
            /\ Lt(expected_percentages[i], actual_percentages[i]) =>
                   Lt(group_psi_values[i].larg, Rat(1, 1))

\* C9: after group_creator every entry of actual_groups is the index in
\* 1..group of the group whose interval holds the sample, and so is every
\* entry of expected_groups whose sample lies within the cut points.
C9_GroupAssignment ==
    (status = "live" /\ Len(actual) > 0 /\ cut_points # None) =>
        /\ \A j \in 1..Len(actual) :
               /\ actual_groups[j] \in 1..group
               /\ InGroup(actual[j], actual_groups[j], cut_points, group)
        /\ \A j \in 1..Len(expected) :
               ( /\ Le(cut_points[1], Rat(expected[j], 1))
                 /\ Le(Rat(expected[j], 1), cut_points[group + 1]) ) =>
                   /\ expected_groups[j] \in 1..group
                   /\ InGroup(expected[j], expected_groups[j], cut_points, group)

\* C10: cut_points is None until the first call; a call that returns leaves
\* it set; once set no call changes it; and _psi_calculator and _visualize
\* do not run group_creator once it is set.
C10_CutPointsCached ==
    [][ /\ calls = 0 => cut_points = None
        /\ (cut_points = None /\ calls' = calls + 1 /\ exc' = "") =>
               cut_points' # None
        /\ cut_points # None => cut_points' = cut_points
        /\ (cut_points # None /\ last' \in {"_psi_calculator", "_visualize"}) =>
               creator_runs' = creator_runs ]_vars

\* C10's case: the second call, of _psi_calculator or _visualize, found
\* cut_points set and group_creator has run once.
C10_Witness ==
    /\ Valid
    /\ calls >= 2
    /\ cut_points # None
    /\ last \in {"_psi_calculator", "_visualize"}
    /\ creator_runs = 1

====
